---- MODULE Spec2Model ----
(***************************************************************************)
(* A model of iq-calc (src/src/main.rs): the entry point and its message   *)
(* loop, the window procedure and its handlers (create, paint, command),   *)
(* the text capture of get_edit_string and the UTF-16 decoding of decode.  *)
(*                                                                         *)
(* The platform (user32/gdi32) is the environment: every call into it      *)
(* whose result the program inspects is a choice over that call's          *)
(* documented results.                                                     *)
(***************************************************************************)
EXTENDS Integers, Sequences, FiniteSets, TLC

VARIABLES
    pc,              \* position of main: start, register, createwindow, showwindow,
                     \* getmessage, isdialogmessage, dispatch, exited, aborted, crashed
    failure,         \* the call whose error main returned ("none" while there is none)
    classRegistered, \* whether RegisterClassW registered the class
    hwnd,            \* main's local hwnd
    msg,             \* main's local msg: [message, wparam, lparam]
    retrieved,       \* whether GetMessageW has ever retrieved a message
    quitPosted,      \* the thread's quit flag, set by PostQuitMessage
    FONT, EDIT, BUTTON,   \* the three thread-local handle slots
    writes,          \* how many times each slot has been assigned
    steps,           \* the steps create has performed, in order
    editText,        \* the edit control's content, in UTF-16 code units
    focus,           \* the window that holds the keyboard focus
    hdcHeld,         \* device contexts acquired by BeginPaint and not yet released
    call,            \* what wnd_proc did in this turn of the loop (or in CreateWindowExW)
    dsource, dout, dpc    \* decode applied on its own: input, output, position

vars == <<pc, failure, classRegistered, hwnd, msg, retrieved, quitPosted, FONT, EDIT,
          BUTTON, writes, steps, editText, focus, hdcHeld, call, dsource, dout, dpc>>

appVars == <<pc, failure, classRegistered, hwnd, msg, retrieved, quitPosted, FONT, EDIT,
             BUTTON, writes, steps, editText, focus, hdcHeld, call>>

decVars == <<dsource, dout, dpc>>

(***************************************************************************)
(* Bounds of the model.                                                    *)
(***************************************************************************)
\* longest edit-control content tried (the capture buffer holds 3 characters and a null)
MaxText == 4
\* longest buffer handed to decode on its own
MaxSrc == 4
\* most device contexts the model lets leak before it stops failing TextOutW
MaxLeak == 2

(***************************************************************************)
(* Program constants.                                                      *)
(***************************************************************************)
ID_EDIT == 42
ID_BUTTON == 43
WM_CREATE == 1
WM_DESTROY == 2
WM_PAINT == 15
WM_COMMAND == 273
\* let mut buf = [0u16; 4]
BUF_LEN == 4
\* Some(WPARAM(8)): the cchTextMax of WM_GETTEXT, in characters, terminator included
GETTEXT_CCH == 8
REPLACEMENT_CHARACTER == 65533

NULL == "NULL"
H_MAIN == "hwnd_main"
H_FONT == "hfont"
H_EDIT == "hwnd_edit"
H_BUTTON == "hwnd_button"

Min(a, b) == IF a <= b THEN a ELSE b

RECURSIVE SeqsUpTo(_, _)
SeqsUpTo(S, n) ==
    IF n = 0 THEN {<<>>}
    ELSE LET shorter == SeqsUpTo(S, n - 1)
         IN  shorter \cup {Append(s, x) : s \in {t \in shorter : Len(t) = n - 1}, x \in S}

(***************************************************************************)
(* decode (lines 93-100) and the library iterator it drives.               *)
(***************************************************************************)
\* u16::is_utf16_surrogate: (u & 0xF800) == 0xD800
IsSurrogate(u) == (u \div 2048) = 27

\* One call of DecodeUtf16::next on an iterator with units left (or a buffered unit):
\* the item it yields, and the iterator and the one-unit buffer afterwards.
decode_utf16_next_nobuf(iter, buf) ==
    LET u    == IF buf # <<>> THEN buf[1] ELSE Head(iter)
        rest == IF buf # <<>> THEN iter ELSE Tail(iter)
    IN  IF ~IsSurrogate(u) THEN [ok |-> TRUE, c |-> u, iter |-> rest, buf |-> <<>>]
        ELSE IF u >= 56320 THEN [ok |-> FALSE, c |-> u, iter |-> rest, buf |-> <<>>]
        ELSE IF rest = <<>> THEN [ok |-> FALSE, c |-> u, iter |-> rest, buf |-> <<>>]
        ELSE LET u2 == Head(rest)
             IN  IF u2 < 56320 \/ u2 > 57343
                 THEN [ok |-> FALSE, c |-> u, iter |-> Tail(rest), buf |-> <<>>]
                 ELSE [ok |-> TRUE,
                       c |-> ((u % 1024) * 1024 + (u2 % 1024)) + 65536,
                       iter |-> Tail(rest), buf |-> <<>>]

decode_utf16_next(iter, buf) ==
    LET u    == IF buf # <<>> THEN buf[1] ELSE Head(iter)
        rest == IF buf # <<>> THEN iter ELSE Tail(iter)
    IN  IF ~IsSurrogate(u) THEN [ok |-> TRUE, c |-> u, iter |-> rest, buf |-> <<>>]
        ELSE IF u >= 56320 THEN [ok |-> FALSE, c |-> u, iter |-> rest, buf |-> <<>>]
        ELSE IF rest = <<>> THEN [ok |-> FALSE, c |-> u, iter |-> rest, buf |-> <<>>]
        ELSE LET u2 == Head(rest)
             IN  IF u2 < 56320 \/ u2 > 57343
                 THEN [ok |-> FALSE, c |-> u, iter |-> Tail(rest), buf |-> <<u2>>]
                 ELSE [ok |-> TRUE,
                       c |-> ((u % 1024) * 1024 + (u2 % 1024)) + 65536,
                       iter |-> Tail(rest), buf |-> <<>>]

\* source.iter().take_while(|&n| n != &0)
RECURSIVE take_while_nonzero(_)
take_while_nonzero(source) ==
    IF source = <<>> \/ Head(source) = 0 THEN <<>>
    ELSE <<Head(source)>> \o take_while_nonzero(Tail(source))

\* the for loop of decode: c.unwrap_or(REPLACEMENT_CHARACTER), buf.push(c)
RECURSIVE decode_loop(_, _, _)
decode_loop(iter, buf, str) ==
    IF iter = <<>> /\ buf = <<>> THEN str
    ELSE LET n == decode_utf16_next(iter, buf)
             c == IF n.ok THEN n.c ELSE REPLACEMENT_CHARACTER
         IN  decode_loop(n.iter, n.buf, Append(str, c))

\* decode: a String, as the sequence of its characters (code points)
decode(source) == decode_loop(take_while_nonzero(source), <<>>, <<>>)

\* str::encode_utf16, as HSTRING::from(String) applies it to the formatted text
RECURSIVE encode_utf16(_)
encode_utf16(str) ==
    IF str = <<>> THEN <<>>
    ELSE LET c == Head(str)
         IN  (IF c < 65536 THEN <<c>>
              ELSE <<55296 + ((c - 65536) \div 1024), 56320 + ((c - 65536) % 1024)>>)
             \o encode_utf16(Tail(str))

(***************************************************************************)
(* The effect of one invocation of wnd_proc: the values it leaves in the   *)
(* program's and the platform's state, and a log of the platform calls it  *)
(* made.  Base is the effect of doing nothing.                             *)
(***************************************************************************)
Base ==
    [result |-> 0, err |-> "none", crash |-> FALSE,
     FONT |-> FONT, EDIT |-> EDIT, BUTTON |-> BUTTON, writes |-> writes, steps |-> steps,
     focus |-> focus, hdcHeld |-> hdcHeld, quitPosted |-> quitPosted,
     def |-> <<>>, boxes |-> <<>>, getText |-> <<>>, setFocus |-> <<>>,
     begin |-> 0, end |-> 0, drawn |-> 0]

\* SetFocus(Some(h)), wrapped as Result: Err when the platform returns a null handle,
\* which it does on failure (the focus stays) and also when no window held the
\* focus before (the focus moves all the same).
SetFocus(h, e) ==
    {[e EXCEPT !.focus = h, !.setFocus = Append(@, h), !.err = "Ok"],
     [e EXCEPT !.focus = h, !.setFocus = Append(@, h), !.err = "Err"],
     [e EXCEPT !.setFocus = Append(@, h), !.err = "Err"]}

(***************************************************************************)
(* paint (lines 67-78).                                                    *)
(***************************************************************************)
paint_recreates_font(h, e) ==
    {[e EXCEPT !.begin = 1, !.end = 1, !.drawn = 2, !.err = "Ok",
               !.FONT = IF @ = NULL THEN H_FONT ELSE NULL,
               !.writes = [@ EXCEPT !.FONT = Min(@ + 1, 2)]]}

paint(h, e) ==
    LET begun == [e EXCEPT !.begin = 1, !.hdcHeld = @ + 1]
        \* TextOutW(..).ok()? returns before EndPaint is reached
        failed == IF e.hdcHeld < MaxLeak
                  THEN {[begun EXCEPT !.drawn = n, !.err = "Err"] : n \in {0, 1}}
                  ELSE {}
        \* EndPaint's return value is always nonzero
        ended == [begun EXCEPT !.drawn = 2, !.end = 1, !.hdcHeld = @ - 1, !.err = "Ok"]
    IN  failed \cup {ended}

(***************************************************************************)
(* get_edit_string (lines 80-91): WM_GETTEXT copies at most cchTextMax - 1 *)
(* characters and a terminating null into the buffer it is given.          *)
(***************************************************************************)
Zeros(n) == [i \in 1..n |-> 0]

\* the outcomes of SendMessageW(h, WM_GETTEXT, cch, buf) on a buffer of len zeroed units
WmGetText(h, cch, len) ==
    IF h = NULL
    THEN {[cch |-> cch, written |-> 0, crash |-> FALSE, buf |-> Zeros(len)]}
    ELSE LET n       == Min(Len(editText), cch - 1)
             written == n + 1
         IN  IF written <= len
             THEN {[cch |-> cch, written |-> written, crash |-> FALSE,
                    buf |-> SubSeq(editText, 1, n) \o Zeros(len - n)]}
             \* a write past the end of the stack array: the units that fit are stored,
             \* the others land on the stack beyond it, which the build either never
             \* reads again or does (a saved register, a return address)
             ELSE {[cch |-> cch, written |-> written, crash |-> FALSE,
                    buf |-> SubSeq(editText, 1, len)],
                   [cch |-> cch, written |-> written, crash |-> TRUE,
                    buf |-> SubSeq(editText, 1, len)]}

\* the String get_edit_string returns, with what its WM_GETTEXT call did
Captured(g) == [cch |-> g.cch, written |-> g.written, crash |-> g.crash, str |-> decode(g.buf)]

get_edit_string_cch3(h) == {Captured(g) : g \in WmGetText(h, 3, BUF_LEN)}

get_edit_string(h) == {Captured(g) : g \in WmGetText(h, GETTEXT_CCH, BUF_LEN)}

(***************************************************************************)
(* command (lines 102-117) and loword (lines 241-244).                     *)
(***************************************************************************)
hiword(l) == (l \div 65536) % 65536

loword(l) == l % 65536

\* "あなたの IQ は " and " です！"
BodyPrefix == <<12354, 12394, 12383, 12398, 32, 73, 81, 32, 12399, 32>>
BodySuffix == <<32, 12391, 12377, 65281>>

\* &HSTRING::from(format!("あなたの IQ は {iq} です！"))
body(iq) == encode_utf16(BodyPrefix \o iq \o BodySuffix)

\* WPARAM is a usize of 64 bits, held here as its two halves of 32 bits
WPARAM(hi, lo) == [hi |-> hi, lo |-> lo]

\* wparam.0 as u32
as_u32(wparam) == wparam.lo

command(h, wparam, e) ==
    LET id == loword(as_u32(wparam))
    IN  IF id = ID_BUTTON
        THEN UNION {
               IF g.crash
               THEN {[e EXCEPT !.crash = TRUE,
                               !.getText = <<[hwnd |-> e.EDIT, cch |-> g.cch,
                                              written |-> g.written]>>]}
               ELSE SetFocus(e.BUTTON,
                             [e EXCEPT !.getText = <<[hwnd |-> e.EDIT, cch |-> g.cch,
                                                      written |-> g.written]>>,
                                       !.boxes = <<[owner |-> h, text |-> body(g.str)]>>])
               : g \in get_edit_string(e.EDIT)}
        ELSE {[e EXCEPT !.err = "Ok"]}

(***************************************************************************)
(* create and its steps (lines 119-200).                                   *)
(***************************************************************************)
Step(op, h, v) == [op |-> op, h |-> h, v |-> v]

\* SendMessageW(hwnd, WM_SETFONT, FONT.get(), None)
set_font(h, e) == [e EXCEPT !.steps = Append(@, Step("set_font", h, e.FONT))]

\* CreateFontW yields a null handle when it fails; the handle is stored as it is
create_font(e) ==
    {[e EXCEPT !.FONT = f, !.writes = [@ EXCEPT !.FONT = @ + 1],
               !.steps = Append(@, Step("create_font", f, f))]
     : f \in {NULL, H_FONT}}

create_edit(h, e) ==
    {[e EXCEPT !.err = "Err", !.steps = Append(@, Step("create_edit", NULL, h))]}
    \cup
    {[sf EXCEPT !.steps = Append(@, Step("set_focus", H_EDIT, sf.err))]
     : sf \in SetFocus(H_EDIT,
                       set_font(H_EDIT,
                                [e EXCEPT !.EDIT = H_EDIT,
                                          !.writes = [@ EXCEPT !.EDIT = @ + 1],
                                          !.steps = Append(@, Step("create_edit", H_EDIT, h))]))}

create_button(h, e) ==
    {[e EXCEPT !.err = "Err", !.steps = Append(@, Step("create_button", NULL, h))],
     [set_font(H_BUTTON, [e EXCEPT !.steps = Append(@, Step("create_button", H_BUTTON, h))])
        EXCEPT !.BUTTON = H_BUTTON, !.writes = [@ EXCEPT !.BUTTON = @ + 1], !.err = "Ok"]}

create_ignoring_edit_failure(h, e) ==
    UNION {UNION {create_button(h, ed) : ed \in create_edit(h, f)} : f \in create_font(e)}

create(h, e) ==
    UNION {UNION {IF ed.err = "Err" THEN {ed} ELSE create_button(h, ed)
                  : ed \in create_edit(h, f)}
           : f \in create_font(e)}

(***************************************************************************)
(* wnd_proc (lines 43-65).                                                 *)
(***************************************************************************)
\* the results DefWindowProcW is given to return
DefResults == {0, 1}

\* WM_DESTROY => PostQuitMessage(0)
on_destroy_no_quit(e) == {e}

on_destroy(e) == {[e EXCEPT !.quitPosted = TRUE]}

\* _ => return DefWindowProcW(hwnd, msg, wparam, lparam)
forward_then_default(h, message, wparam, lparam, e) ==
    {[e EXCEPT !.def = <<[hwnd |-> h, message |-> message, wparam |-> wparam,
                           lparam |-> lparam, result |-> r]>>,
               !.result = 0]
     : r \in DefResults}

forward(h, message, wparam, lparam, e) ==
    {[e EXCEPT !.def = <<[hwnd |-> h, message |-> message, wparam |-> wparam,
                           lparam |-> lparam, result |-> r]>>,
               !.result = r]
     : r \in DefResults}

\* handler(..).ok(); and then LRESULT::default()
swallow_not(outcomes) == {[o EXCEPT !.result = IF o.err = "Err" THEN -1 ELSE 0] : o \in outcomes}

swallow(outcomes) == {[o EXCEPT !.result = 0] : o \in outcomes}

wnd_proc(h, message, wparam, lparam, e) ==
    CASE message = WM_CREATE  -> swallow(create(h, e))
      [] message = WM_PAINT   -> swallow(paint(h, e))
      [] message = WM_COMMAND -> swallow(command(h, wparam, e))
      [] message = WM_DESTROY -> swallow(on_destroy(e))
      [] OTHER                -> forward(h, message, wparam, lparam, e)

(***************************************************************************)
(* The messages the platform hands to the program, and the texts a user    *)
(* leaves in the edit control.                                             *)
(***************************************************************************)
Message(m, w, l) == [message |-> m, wparam |-> w, lparam |-> l]

\* wparam of a command event: the control's identifier in the low word, the
\* notification code above it (EN_CHANGE is 768, BN_SETFOCUS 6)
WParams ==
    {WPARAM(0, 0), WPARAM(0, ID_EDIT), WPARAM(0, ID_BUTTON),
     WPARAM(0, 768 * 65536 + ID_EDIT), WPARAM(0, ID_BUTTON * 65536 + ID_EDIT),
     WPARAM(0, 6 * 65536 + ID_BUTTON), WPARAM(1, ID_BUTTON), WPARAM(ID_BUTTON, ID_EDIT)}

\* WM_NULL, WM_SIZE, WM_KEYDOWN (the tab key)
OtherMessages ==
    {Message(0, WPARAM(0, 0), 0), Message(5, WPARAM(0, 0), 7), Message(256, WPARAM(0, 9), 1)}

Messages ==
    {Message(WM_PAINT, WPARAM(0, 0), 0), Message(WM_DESTROY, WPARAM(0, 0), 0)}
    \cup {Message(WM_COMMAND, w, 0) : w \in WParams}
    \cup OtherMessages

\* MSG::default()
NoMessage == Message(0, WPARAM(0, 0), 0)

\* the digit the edit control is filled with, up to MaxText of it
Digits == {49}

\* "", "1", "11", ... and three contents of distinct digits: "21", "120", "9012"
Texts == SeqsUpTo(Digits, MaxText) \cup {<<50, 49>>, <<49, 50, 48>>, <<57, 48, 49, 50>>}

\* the code units decode is tried on: null, a digit, the ends of the two surrogate
\* ranges, and the first unit after them
Units == {0, 49, 55296, 56319, 56320, 57343, 57344}

NoCall ==
    [message |-> -1, wparam |-> WPARAM(0, 0), lparam |-> 0, result |-> 0, err |-> "none",
     def |-> <<>>, boxes |-> <<>>, getText |-> <<>>, setFocus |-> <<>>,
     begin |-> 0, end |-> 0, drawn |-> 0]

\* the state after wnd_proc has run on m with effect o, main going on at next
Deliver(m, o, next) ==
    /\ FONT' = o.FONT
    /\ EDIT' = o.EDIT
    /\ BUTTON' = o.BUTTON
    /\ writes' = o.writes
    /\ steps' = o.steps
    /\ focus' = o.focus
    /\ hdcHeld' = o.hdcHeld
    /\ quitPosted' = o.quitPosted
    /\ call' = [message |-> m.message, wparam |-> m.wparam, lparam |-> m.lparam,
                result |-> o.result, err |-> o.err, def |-> o.def, boxes |-> o.boxes,
                getText |-> o.getText, setFocus |-> o.setFocus,
                begin |-> o.begin, end |-> o.end, drawn |-> o.drawn]
    /\ pc' = IF o.crash THEN "crashed" ELSE next

(***************************************************************************)
(* main (lines 202-239).                                                   *)
(***************************************************************************)
Init ==
    /\ pc = "start"
    /\ failure = "none"
    /\ classRegistered = FALSE
    /\ hwnd = NULL
    /\ msg = NoMessage
    /\ retrieved = FALSE
    /\ quitPosted = FALSE
    /\ FONT = NULL
    /\ EDIT = NULL
    /\ BUTTON = NULL
    /\ writes = [FONT |-> 0, EDIT |-> 0, BUTTON |-> 0]
    /\ steps = <<>>
    /\ editText = <<>>
    /\ focus = NULL
    /\ hdcHeld = 0
    /\ call = NoCall
    /\ dsource = <<>>
    /\ dout = <<>>
    /\ dpc = "idle"

\* hCursor: LoadCursorW(None, IDI_APPLICATION)?
MainLoadCursor_swallowed ==
    /\ pc = "start"
    /\ \E ok \in BOOLEAN :
         /\ pc' = "register"
         /\ failure' = IF ok THEN "none" ELSE "LoadCursorW"
    /\ UNCHANGED <<classRegistered, hwnd, msg, retrieved, quitPosted, FONT, EDIT, BUTTON,
                   writes, steps, editText, focus, hdcHeld, call, decVars>>

MainLoadCursor ==
    /\ pc = "start"
    /\ \E ok \in BOOLEAN :
         /\ pc' = IF ok THEN "register" ELSE "aborted"
         /\ failure' = IF ok THEN "none" ELSE "LoadCursorW"
    /\ UNCHANGED <<classRegistered, hwnd, msg, retrieved, quitPosted, FONT, EDIT, BUTTON,
                   writes, steps, editText, focus, hdcHeld, call, decVars>>

\* RegisterClassW(&wc): the atom it returns is dropped
MainRegisterClass ==
    /\ pc = "register"
    /\ classRegistered' \in BOOLEAN
    /\ pc' = "createwindow"
    /\ UNCHANGED <<failure, hwnd, msg, retrieved, quitPosted, FONT, EDIT, BUTTON,
                   writes, steps, editText, focus, hdcHeld, call, decVars>>

\* CreateWindowExW(..)?: it fails without a registered class, may fail for want of
\* resources, and otherwise sends WM_CREATE before it returns; the window is not
\* created when the window procedure answers WM_CREATE with -1
MainCreateWindow ==
    /\ pc = "createwindow"
    /\ \/ /\ pc' = "aborted"
          /\ failure' = "CreateWindowExW"
          /\ UNCHANGED <<hwnd, quitPosted, FONT, EDIT, BUTTON, writes, steps, focus,
                         hdcHeld, call>>
       \/ /\ classRegistered
          /\ \E o \in wnd_proc(H_MAIN, WM_CREATE, WPARAM(0, 0), 0, Base) :
               /\ Deliver(Message(WM_CREATE, WPARAM(0, 0), 0), o,
                          IF o.result = -1 THEN "aborted" ELSE "showwindow")
               /\ hwnd' = IF o.result = -1 THEN NULL ELSE H_MAIN
               /\ failure' = IF o.result = -1 THEN "CreateWindowExW" ELSE failure
    /\ UNCHANGED <<classRegistered, msg, retrieved, editText, decVars>>

\* _ = ShowWindow(hwnd, SW_NORMAL)
MainShowWindow ==
    /\ pc = "showwindow"
    /\ pc' = "getmessage"
    /\ UNCHANGED <<failure, classRegistered, hwnd, msg, retrieved, quitPosted, FONT, EDIT,
                   BUTTON, writes, steps, editText, focus, hdcHeld, call, decVars>>

\* GetMessageW(&mut msg, None, 0, 0): zero once the quit flag is set and nothing
\* is queued for the destroyed window, else the next message for the main window
MainGetMessage ==
    /\ pc = "getmessage"
    /\ \/ /\ quitPosted
          /\ msg' = Message(18, WPARAM(0, 0), 0)
          /\ pc' = "exited"
       \/ /\ ~quitPosted
          /\ msg' \in Messages
          /\ pc' = "isdialogmessage"
    /\ retrieved' = TRUE
    /\ call' = NoCall
    /\ UNCHANGED <<failure, classRegistered, hwnd, quitPosted, FONT, EDIT, BUTTON,
                   writes, steps, editText, focus, hdcHeld, decVars>>

\* A turn of the loop whose message is for the edit control: the control's own
\* window procedure takes the keystroke and the content changes.
EditInput ==
    /\ pc = "getmessage"
    /\ ~quitPosted
    /\ EDIT # NULL
    /\ editText' \in Texts \ {editText}
    /\ retrieved' = TRUE
    /\ call' = NoCall
    /\ UNCHANGED <<pc, failure, classRegistered, hwnd, msg, quitPosted, FONT, EDIT, BUTTON,
                   writes, steps, focus, hdcHeld, decVars>>

\* IsDialogMessageW(hwnd, &msg): a navigation key is taken by the dialog manager,
\* which moves the focus between the controls; anything else is left to dispatch
MainIsDialogMessage ==
    /\ pc = "isdialogmessage"
    /\ \/ /\ msg.message = 256
          /\ focus' \in {EDIT, BUTTON}
          /\ pc' = "getmessage"
       \/ /\ pc' = "dispatch"
          /\ focus' = focus
    /\ UNCHANGED <<failure, classRegistered, hwnd, msg, retrieved, quitPosted, FONT, EDIT,
                   BUTTON, writes, steps, editText, hdcHeld, call, decVars>>

\* TranslateMessage(&msg); DispatchMessageW(&msg)
MainDispatch ==
    /\ pc = "dispatch"
    /\ \E o \in wnd_proc(hwnd, msg.message, msg.wparam, msg.lparam, Base) :
         Deliver(msg, o, "getmessage")
    /\ UNCHANGED <<failure, classRegistered, hwnd, msg, retrieved, editText, decVars>>

Next ==
    \/ MainLoadCursor
    \/ MainRegisterClass
    \/ MainCreateWindow
    \/ MainShowWindow
    \/ MainGetMessage
    \/ EditInput
    \/ MainIsDialogMessage
    \/ MainDispatch

Spec == Init /\ [][Next]_vars

\* The loop is sequential code: whenever it can take its next step it does.  A
\* blocked GetMessageW returns once the platform has something for it.
FairSpec ==
    /\ Spec
    /\ WF_vars(MainGetMessage)
    /\ WF_vars(MainIsDialogMessage)
    /\ WF_vars(MainDispatch)

(***************************************************************************)
(* decode on its own, on every buffer up to MaxSrc units over Units.       *)
(***************************************************************************)
DecodeInit ==
    /\ pc = "start"
    /\ failure = "none"
    /\ classRegistered = FALSE
    /\ hwnd = NULL
    /\ msg = NoMessage
    /\ retrieved = FALSE
    /\ quitPosted = FALSE
    /\ FONT = NULL
    /\ EDIT = NULL
    /\ BUTTON = NULL
    /\ writes = [FONT |-> 0, EDIT |-> 0, BUTTON |-> 0]
    /\ steps = <<>>
    /\ editText = <<>>
    /\ focus = NULL
    /\ hdcHeld = 0
    /\ call = NoCall
    /\ dsource \in SeqsUpTo(Units, MaxSrc)
    /\ dout = <<>>
    /\ dpc = "start"

DecodeApply ==
    /\ dpc = "start"
    /\ dout' = decode(dsource)
    /\ dpc' = "done"
    /\ UNCHANGED <<appVars, dsource>>

DecodeNext == DecodeApply

DecodeSpec == DecodeInit /\ [][DecodeNext]_vars

(***************************************************************************)
(* Properties.                                                             *)
(***************************************************************************)
\* the control identifier a command event carries: the low 16 bits of wparam
ControlId(m) == m.wparam.lo % 65536

Handled == {WM_CREATE, WM_PAINT, WM_COMMAND, WM_DESTROY}

\* C1: with the edit control in place and holding 0 to 3 digits, a command event
\* that carries the button's identifier shows exactly one dialog, whose body is the
\* template with the whole content in the place of {iq}.
C1_ButtonEchoesShortInput ==
    (/\ call.message = WM_COMMAND
     /\ ControlId(call) = ID_BUTTON
     /\ EDIT # NULL
     /\ Len(editText) <= 3)
    => /\ Len(call.boxes) = 1
       /\ call.boxes[1].text = BodyPrefix \o editText \o BodySuffix

C1_Witness ==
    /\ call.message = WM_COMMAND
    /\ ControlId(call) = ID_BUTTON
    /\ editText = <<49, 50, 48>>
    /\ Len(call.boxes) = 1
    /\ call.boxes[1].text = BodyPrefix \o <<49, 50, 48>> \o BodySuffix

C1_WitnessEmpty ==
    /\ call.message = WM_COMMAND
    /\ ControlId(call) = ID_BUTTON
    /\ EDIT # NULL
    /\ editText = <<>>
    /\ call.boxes = <<[owner |-> H_MAIN, text |-> BodyPrefix \o BodySuffix]>>

\* C2: whatever the edit control holds, the WM_GETTEXT call of get_edit_string
\* writes no more code units (terminator included) than the buffer has.
C2_GetTextStaysInsideBuffer ==
    \A i \in DOMAIN call.getText : call.getText[i].written <= BUF_LEN

\* the same for the bound the call states: cchTextMax is at most the buffer's length
C2_GetTextBoundFitsBuffer ==
    \A i \in DOMAIN call.getText : call.getText[i].cch <= BUF_LEN

\* C3: decode agrees with a reference lossy decoder on every buffer: only the units
\* before the first null count, a unit outside the surrogate ranges is one character,
\* a high surrogate with a low one after it is one character, and every other
\* surrogate is one U+FFFD.
IsHigh(u) == 55296 <= u /\ u <= 56319
IsLow(u) == 56320 <= u /\ u <= 57343

\* the units of s before its first null
UpToNull(s) ==
    LET nulls == {i \in DOMAIN s : s[i] = 0}
    IN  IF nulls = {} THEN s
        ELSE SubSeq(s, 1, (CHOOSE i \in nulls : \A j \in nulls : i <= j) - 1)

\* what the unit at position i of s contributes to the decoded text
LossyAt(s, i) ==
    IF IsHigh(s[i]) /\ i < Len(s) /\ IsLow(s[i + 1])
    THEN <<65536 + (s[i] - 55296) * 1024 + (s[i + 1] - 56320)>>
    ELSE IF IsLow(s[i]) /\ i > 1 /\ IsHigh(s[i - 1]) THEN <<>>
    ELSE IF IsHigh(s[i]) \/ IsLow(s[i]) THEN <<65533>>
    ELSE <<s[i]>>

RECURSIVE LossyFrom(_, _)
LossyFrom(s, i) == IF i > Len(s) THEN <<>> ELSE LossyAt(s, i) \o LossyFrom(s, i + 1)

C3_DecodeMatchesReference ==
    dpc = "done" => dout = LossyFrom(UpToNull(dsource), 1)

C3_Witness ==
    /\ dpc = "done"
    /\ dsource = <<56319, 49, 0, 49>>
    /\ dout = <<65533, 49>>

\* C4: a command event whose control identifier is not the button's shows no dialog,
\* does not read the edit control, does not move the focus, leaves the three handle
\* slots as they are, and the window procedure returns zero, its handler Ok.
C4_OtherCommandIsNoOp ==
    [][(/\ pc = "dispatch"
        /\ msg.message = WM_COMMAND
        /\ ControlId(msg) # ID_BUTTON)
       => /\ FONT' = FONT /\ EDIT' = EDIT /\ BUTTON' = BUTTON
          /\ focus' = focus
          /\ call'.boxes = <<>> /\ call'.getText = <<>> /\ call'.setFocus = <<>>
          /\ call'.err = "Ok" /\ call'.result = 0
          /\ pc' = "getmessage"]_vars

C4_Witness ==
    /\ call.message = WM_COMMAND
    /\ call.wparam = WPARAM(0, ID_EDIT)
    /\ call.err = "Ok"
    /\ BUTTON # NULL
    /\ focus = H_EDIT

\* C5: a destroy event posts the quit signal, the loop then retrieves it and
\* exits, and the loop exits on nothing but a retrieved quit signal.
C5_DestroyEndsLoop ==
    /\ [](call.message = WM_DESTROY => quitPosted)
    /\ (call.message = WM_DESTROY) ~> (pc = "exited")
    /\ [](pc = "exited" => (quitPosted /\ msg.message = 18))

C5_Witness ==
    /\ pc = "exited"
    /\ EDIT # NULL
    /\ BUTTON = NULL
    /\ hdcHeld > 0

\* C6: a message of any other kind goes to DefWindowProcW with the same window,
\* identifier and parameters, its result is what wnd_proc returns, and the three
\* handle slots stay as they are.
C6_OtherMessagesForwarded ==
    [][(pc = "dispatch" /\ msg.message \notin Handled)
       => /\ FONT' = FONT /\ EDIT' = EDIT /\ BUTTON' = BUTTON
          /\ Len(call'.def) = 1
          /\ call'.def[1].hwnd = hwnd
          /\ call'.def[1].message = msg.message
          /\ call'.def[1].wparam = msg.wparam
          /\ call'.def[1].lparam = msg.lparam
          /\ call'.result = call'.def[1].result]_vars

C6_Witness ==
    /\ call.message = 5
    /\ call.def = <<[hwnd |-> H_MAIN, message |-> 5, wparam |-> WPARAM(0, 0),
                     lparam |-> 7, result |-> 1]>>
    /\ call.result = 1
    /\ BUTTON # NULL

\* C7 as stated: a failed class registration or window creation aborts before the
\* loop is entered, and nothing else aborts.
C7_OnlyRegistrationOrCreationAborts ==
    /\ pc = "aborted" => (~retrieved /\ failure \in {"RegisterClassW", "CreateWindowExW"})
    /\ (~classRegistered /\ pc \notin {"start", "register", "createwindow"})
         => pc = "aborted"

\* C7 as amended: a failed LoadCursorW or CreateWindowExW aborts before the loop is
\* entered; a failed registration goes unchecked and aborts through the window
\* creation that fails after it; nothing else aborts, a handler's error least of all.
C7_CursorOrCreationAborts ==
    /\ pc = "aborted" => (/\ ~retrieved
                          /\ failure \in {"LoadCursorW", "CreateWindowExW"}
                          /\ call = NoCall)
    /\ (~classRegistered /\ pc \notin {"start", "register", "createwindow"})
         => pc = "aborted"
    /\ failure # "none" => pc = "aborted"
    /\ call.err = "Err" => pc # "aborted"

C7_Witness ==
    /\ pc = "aborted"
    /\ failure = "LoadCursorW"
    /\ ~retrieved

\* C8: the paint handler releases the device context it acquired, once, however it
\* returns: none is held when it is over.
C8_PaintReleasesContext ==
    /\ call.message = WM_PAINT => (call.begin = 1 /\ call.end = 1)
    /\ hdcHeld = 0

\* C9: each handle slot is assigned at most once, by the creation event alone, and
\* keeps its value from then on.
C9_SlotsWriteOnce ==
    [][/\ \A s \in DOMAIN writes : writes'[s] <= 1
       /\ (FONT' # FONT \/ EDIT' # EDIT \/ BUTTON' # BUTTON \/ writes' # writes)
            => (pc = "createwindow" /\ call'.message = WM_CREATE)
       /\ writes.FONT = 1 => FONT' = FONT
       /\ writes.EDIT = 1 => EDIT' = EDIT
       /\ writes.BUTTON = 1 => BUTTON' = BUTTON]_vars

C9_Witness ==
    /\ writes = [FONT |-> 1, EDIT |-> 1, BUTTON |-> 1]
    /\ FONT = H_FONT /\ EDIT = H_EDIT /\ BUTTON = H_BUTTON
    /\ call.message = WM_COMMAND
    /\ Len(call.boxes) = 1

\* C10: create stores the font first, whatever CreateFontW returned, then makes
\* the edit control, then the button; when the edit step fails the button is never
\* made and its slot stays null, wnd_proc still returns zero, main goes on to
\* its loop, and creation is not tried again.
StepsOf(op) == SelectSeq(steps, LAMBDA st : st.op = op)

EditStepFailed ==
    \E i \in DOMAIN steps :
        \/ steps[i].op = "create_edit" /\ steps[i].h = NULL
        \/ steps[i].op = "set_focus" /\ steps[i].v = "Err"

C10_CreateOrderAndEditFailure ==
    /\ steps # <<>> =>
         /\ steps[1].op = "create_font"
         /\ writes.FONT = 1
         /\ FONT = steps[1].v
         /\ Len(steps) >= 2 /\ steps[2].op = "create_edit"
         /\ Len(StepsOf("create_font")) = 1
         /\ Len(StepsOf("create_edit")) = 1
         /\ \A i \in DOMAIN steps : steps[i].op = "create_button" => i > 2
         /\ pc # "aborted"
    /\ call.message = WM_CREATE => call.result = 0
    /\ EditStepFailed =>
         /\ StepsOf("create_button") = <<>>
         /\ BUTTON = NULL
         /\ writes.BUTTON = 0

C10_Witness ==
    /\ EditStepFailed
    /\ FONT = NULL
    /\ EDIT = H_EDIT
    /\ BUTTON = NULL
    /\ call.message = WM_PAINT
    /\ call.err = "Ok"

====
